---- MODULE Spec2Model ----
(***************************************************************************)
(* Model of examples/Summarizing_with_controllable_detail.ipynb:           *)
(*   tokenize, combine_chunks_with_no_minimum, chunk_on_delimiter and      *)
(*   summarize.                                                            *)
(*                                                                         *)
(* A Python str is a sequence of one-character strings; a Python list of   *)
(* str is a sequence of such sequences.  An Optional[str] is a sequence of *)
(* length 0 (None) or 1, which is also the list `[] if x is None else [x]`.*)
(* List indices are 0-based as in the code.                                *)
(***************************************************************************)
EXTENDS Integers, Sequences, FiniteSets, TLC

\* ------------------------------------------------------------------ bounds
MaxPieces == 3        \* longest piece list handed to the combiner
MaxBudget == 3        \* largest max_tokens handed to the combiner
MaxTextPieces == 4    \* most delimiter-separated pieces in a document
MaxMinChunk == 2      \* largest minimum_chunk_size
DetailDen == 4        \* detail ranges over the grid k / DetailDen

\* ----------------------------------------------------------------- strings
Min(a, b) == IF a <= b THEN a ELSE b
Max(a, b) == IF a >= b THEN a ELSE b

Dot == <<".">>
BlankLine == <<"\n", "\n">>
Ellipsis == <<".", ".", ".">>

\* delimiter.join(list)
RECURSIVE Join(_, _)
Join(list, delimiter) ==
    IF list = <<>> THEN <<>>
    ELSE IF Len(list) = 1 THEN list[1]
    ELSE list[1] \o delimiter \o Join(Tail(list), delimiter)

\* does string s carry string p at position i (1-based)
StartsWithAt(s, p, i) ==
    /\ i + Len(p) - 1 <= Len(s)
    /\ SubSeq(s, i, i + Len(p) - 1) = p

\* string.split(delimiter): the pieces between the literal occurrences
RECURSIVE SplitFrom(_, _, _, _)
SplitFrom(s, delimiter, i, piece) ==
    IF i > Len(s) THEN <<piece>>
    ELSE IF StartsWithAt(s, delimiter, i)
         THEN <<piece>> \o SplitFrom(s, delimiter, i + Len(delimiter), <<>>)
         ELSE SplitFrom(s, delimiter, i + 1, Append(piece, s[i]))

Split(s, delimiter) == SplitFrom(s, delimiter, 1, <<>>)

\* --------------------------------------------------------------- tokenizer
\* The encoding's vocabulary, cut down to the characters the model uses:
\* single characters, the merged pair "ab", runs of up to four dots and the
\* blank line are one token each.
Vocabulary ==
    { <<"a">>, <<"b">>, <<"a", "b">>, <<"x">>, <<"y">>, <<":">>,
      <<".">>, <<".", ".">>, <<".", ".", ".">>, <<".", ".", ".", ".">>,
      <<"\n">>, <<"\n", "\n">> }

\* the length of the longest vocabulary entry
LongestToken ==
    CHOOSE n \in { Len(v) : v \in Vocabulary } :
        \A v \in Vocabulary : Len(v) <= n

\* length of the longest vocabulary entry that is a prefix of s
LongestMatch(s) ==
    CHOOSE k \in 1..Min(LongestToken, Len(s)) :
        /\ SubSeq(s, 1, k) \in Vocabulary
        /\ \A j \in (k + 1)..Min(LongestToken, Len(s)) :
               SubSeq(s, 1, j) \notin Vocabulary

\* encoding.encode(text): the token sequence of text
RECURSIVE tokenize(_)
tokenize(text) ==
    IF text = <<>> THEN <<>>
    ELSE LET k == LongestMatch(text)
         IN  <<SubSeq(text, 1, k)>> \o tokenize(SubSeq(text, k + 1, Len(text)))

\* ---------------------------------------------------------------- combiner
\* loop state of combine_chunks_with_no_minimum before the first piece
CombineInit(header) ==
    [ dropped_chunk_count |-> 0,
      output              |-> <<>>,
      output_indices      |-> <<>>,
      candidate           |-> header,
      candidate_indices   |-> <<>> ]

\* chunk_with_header = [chunk] if header is None else [header, chunk]
ChunkWithHeader(chunk, header) == header \o <<chunk>>

\* variant of IsOverflow: the piece is measured without the header
IsOverflowIgnoringHeader(chunk, header, max_tokens, chunk_delimiter) ==
    Len(tokenize(chunk)) > max_tokens

\* the piece alone (with the header) does not fit
IsOverflow(chunk, header, max_tokens, chunk_delimiter) ==
    Len(tokenize(Join(ChunkWithHeader(chunk, header), chunk_delimiter))) > max_tokens

\* variant of EllipsisFits: the marker is appended without the fit test
EllipsisAlwaysFits(candidate, max_tokens, chunk_delimiter) == TRUE

\* the candidate with a "..." marker appended still fits
EllipsisFits(candidate, max_tokens, chunk_delimiter) ==
    Len(tokenize(Join(candidate \o <<Ellipsis>>, chunk_delimiter))) <= max_tokens

\* variant of OverflowBranch: every skipped piece is counted
OverflowBranchCountingAll(st, max_tokens, chunk_delimiter, add_ellipsis) ==
    IF add_ellipsis /\ EllipsisFits(st.candidate, max_tokens, chunk_delimiter)
    THEN [st EXCEPT !.candidate = Append(@, Ellipsis),
                    !.dropped_chunk_count = @ + 1]
    ELSE [st EXCEPT !.dropped_chunk_count = @ + 1]

\* the branch taken for a piece that does not fit alone
OverflowBranch(st, max_tokens, chunk_delimiter, add_ellipsis) ==
    IF add_ellipsis /\ EllipsisFits(st.candidate, max_tokens, chunk_delimiter)
    THEN [st EXCEPT !.candidate = Append(@, Ellipsis),
                    !.dropped_chunk_count = @ + 1]
    ELSE st

\* variant of ExtendedCandidateTokenCount: the parts are tokenized apart and
\* their counts added
ExtendedCandidateTokenCountAdditive(candidate, chunk, chunk_delimiter) ==
    Len(tokenize(Join(candidate, chunk_delimiter)))
        + (IF candidate = <<>> THEN 0 ELSE Len(tokenize(chunk_delimiter)))
        + Len(tokenize(chunk))

\* extended_candidate_token_count
ExtendedCandidateTokenCount(candidate, chunk, chunk_delimiter) ==
    Len(tokenize(Join(candidate \o <<chunk>>, chunk_delimiter)))

\* variant of StartNewCandidate: the new candidate's index list starts empty
StartNewCandidateLosingIndex(st, chunk_i, chunk, header, chunk_delimiter) ==
    [st EXCEPT !.output = Append(@, Join(st.candidate, chunk_delimiter)),
               !.output_indices = Append(@, st.candidate_indices),
               !.candidate = ChunkWithHeader(chunk, header),
               !.candidate_indices = <<>>]

\* close the candidate and start a new one with this piece
StartNewCandidate(st, chunk_i, chunk, header, chunk_delimiter) ==
    [st EXCEPT !.output = Append(@, Join(st.candidate, chunk_delimiter)),
               !.output_indices = Append(@, st.candidate_indices),
               !.candidate = ChunkWithHeader(chunk, header),
               !.candidate_indices = <<chunk_i>>]

\* keep extending the candidate
ExtendCandidate(st, chunk_i, chunk) ==
    [st EXCEPT !.candidate = Append(@, chunk),
               !.candidate_indices = Append(@, chunk_i)]

\* one iteration of the loop over enumerate(chunks)
CombineStep(st, chunk_i, chunk, max_tokens, chunk_delimiter, header, add_ellipsis) ==
    IF IsOverflow(chunk, header, max_tokens, chunk_delimiter)
    THEN OverflowBranch(st, max_tokens, chunk_delimiter, add_ellipsis)
    ELSE IF ExtendedCandidateTokenCount(st.candidate, chunk, chunk_delimiter) > max_tokens
         THEN StartNewCandidate(st, chunk_i, chunk, header, chunk_delimiter)
         ELSE ExtendCandidate(st, chunk_i, chunk)

\* add the remaining candidate to output if it's not empty
CombineFinish(st, chunk_delimiter, header) ==
    IF \/ (header # <<>> /\ Len(st.candidate) > 1)
       \/ (header = <<>> /\ Len(st.candidate) > 0)
    THEN [st EXCEPT !.output = Append(@, Join(st.candidate, chunk_delimiter)),
                    !.output_indices = Append(@, st.candidate_indices)]
    ELSE st

\* the loop state after the pieces 0 .. n-1
RECURSIVE CombineLoop(_, _, _, _, _, _)
CombineLoop(chunks, n, max_tokens, chunk_delimiter, header, add_ellipsis) ==
    IF n = 0 THEN CombineInit(header)
    ELSE CombineStep(CombineLoop(chunks, n - 1, max_tokens, chunk_delimiter,
                                 header, add_ellipsis),
                     n - 1, chunks[n], max_tokens, chunk_delimiter, header,
                     add_ellipsis)

\* combine_chunks_with_no_minimum: (output, output_indices, dropped_chunk_count)
combine_chunks_with_no_minimum(chunks, max_tokens, chunk_delimiter, header, add_ellipsis) ==
    CombineFinish(CombineLoop(chunks, Len(chunks), max_tokens, chunk_delimiter,
                              header, add_ellipsis),
                  chunk_delimiter, header)

\* --------------------------------------------------------------- summarize
\* chunk_on_delimiter: split, combine with "..." markers, re-append the
\* delimiter to every combined chunk
chunk_on_delimiter(input_string, max_tokens, delimiter) ==
    LET combined == combine_chunks_with_no_minimum(
                        Split(input_string, delimiter), max_tokens, delimiter,
                        <<>>, TRUE).output
    IN  [k \in 1..Len(combined) |-> combined[k] \o delimiter]

\* int(x) for the rational x = n / d, d > 0: truncation towards zero
IntOfRatio(n, d) == IF n >= 0 THEN n \div d ELSE -((-n) \div d)

\* variant of DetailIsValid: only the lower end is asserted
DetailIsValidLowerOnly(detail) == 0 <= detail

\* assert 0 <= detail <= 1; detail is the float k / DetailDen, kept as its
\* numerator k
DetailIsValid(detail) == 0 <= detail /\ detail <= DetailDen

\* variant of NumChunks: interpolation from 0 instead of min_chunks
NumChunksWithoutMin(detail, max_chunks) ==
    IntOfRatio(detail * max_chunks, DetailDen)

\* int(min_chunks + detail * (max_chunks - min_chunks)) with min_chunks = 1
NumChunks(detail, max_chunks) ==
    IntOfRatio(1 * DetailDen + detail * (max_chunks - 1), DetailDen)

\* variant of ChunkSize: the document length is left out
ChunkSizeIgnoringLength(minimum_chunk_size, document_length, num_chunks) ==
    minimum_chunk_size

\* max(minimum_chunk_size, document_length // num_chunks), num_chunks # 0
ChunkSize(minimum_chunk_size, document_length, num_chunks) ==
    Max(minimum_chunk_size, document_length \div num_chunks)

\* the number of chunks summarize builds for the given arguments: the
\* throwaway pass, the interpolation, the budget and the final pass
\* (defined when the interpolated num_chunks is not 0)
FinalChunkCount(text, detail, minimum_chunk_size) ==
    LET max_chunks == Len(chunk_on_delimiter(text, minimum_chunk_size, Dot))
        num_chunks == NumChunks(detail, max_chunks)
        chunk_size == ChunkSize(minimum_chunk_size, Len(tokenize(text)),
                                num_chunks)
    IN  Len(chunk_on_delimiter(text, chunk_size, Dot))

SummarizeInstruction ==
    <<"S", "u", "m", "m", "a", "r", "i", "z", "e", " ", "t", "h", "e", " ",
    "f", "o", "l", "l", "o", "w", "i", "n", "g", " ", "t", "e", "x", "t",
    ".">>

\* system_message_content, with the optional additional instructions
SystemMessageContent(additional_instructions) ==
    IF additional_instructions # <<>>
    THEN SummarizeInstruction \o BlankLine \o additional_instructions[1]
    ELSE SummarizeInstruction

PreviousSummariesLabel ==
    <<"P", "r", "e", "v", "i", "o", "u", "s", " ", "s", "u", "m", "m", "a",
    "r", "i", "e", "s", ":", "\n", "\n">>

TextToSummarizeLabel ==
    <<"\n", "\n", "T", "e", "x", "t", " ", "t", "o", " ", "s", "u", "m", "m",
    "a", "r", "i", "z", "e", " ", "n", "e", "x", "t", ":", "\n", "\n">>

\* variant of UserMessageContent: the recursive prompt whatever the flag
UserMessageContentIgnoringFlag(summarize_recursively, accumulated_summaries, chunk) ==
    IF accumulated_summaries # <<>>
    THEN PreviousSummariesLabel \o Join(accumulated_summaries, BlankLine)
             \o TextToSummarizeLabel \o chunk
    ELSE chunk

\* variant of UserMessageContent: only the latest summary is embedded
UserMessageContentLastOnly(summarize_recursively, accumulated_summaries, chunk) ==
    IF summarize_recursively /\ accumulated_summaries # <<>>
    THEN PreviousSummariesLabel
             \o accumulated_summaries[Len(accumulated_summaries)]
             \o TextToSummarizeLabel \o chunk
    ELSE chunk

\* user_message_content: the chunk, in recursive mode behind the summaries
\* accumulated so far
UserMessageContent(summarize_recursively, accumulated_summaries, chunk) ==
    IF summarize_recursively /\ accumulated_summaries # <<>>
    THEN PreviousSummariesLabel \o Join(accumulated_summaries, BlankLine)
             \o TextToSummarizeLabel \o chunk
    ELSE chunk

\* messages = [{"role": "system", ..}, {"role": "user", ..}]
Messages(system_message_content, user_message_content) ==
    << [role |-> "system", content |-> system_message_content],
       [role |-> "user", content |-> user_message_content] >>

\* ------------------------------------------------------------------- state
VARIABLES
    \* a call of combine_chunks_with_no_minimum
    chunks, max_tokens, chunk_delimiter, header, add_ellipsis_for_overflow,
    chunk_i, dropped_chunk_count, output, output_indices, candidate,
    candidate_indices, cpc,
    \* a call of summarize
    text, detail, minimum_chunk_size, summarize_recursively,
    additional_instructions, max_chunks, num_chunks, document_length,
    chunk_size, text_chunks, system_message_content, next_chunk,
    accumulated_summaries, requests, final_summary, spc,
    \* a reference call of summarize on the same arguments, run in step with
    \* the first, whose language model always gives the same answer
    accumulated_summaries_2, requests_2

combineVars == <<chunks, max_tokens, chunk_delimiter, header,
                 add_ellipsis_for_overflow, chunk_i, dropped_chunk_count,
                 output, output_indices, candidate, candidate_indices, cpc>>

summarizeVars == <<text, detail, minimum_chunk_size, summarize_recursively,
                   additional_instructions, max_chunks, num_chunks,
                   document_length, chunk_size, text_chunks,
                   system_message_content, next_chunk, accumulated_summaries,
                   requests, final_summary, spc, accumulated_summaries_2,
                   requests_2>>

vars == <<combineVars, summarizeVars>>

\* ------------------------------------------------------------------ inputs
\* all sequences over S of length 0 .. n
SeqsUpTo(S, n) == UNION { [1..k -> S] : k \in 0..n }

\* pieces handed to the combiner
PieceSet == { <<>>, <<"a">>, <<"a", "b">>, <<"a", "a", "a">> }

\* header = None, or a one-token header
HeaderSet == { <<>>, << <<"a">> >> }

DelimiterSet == { Dot, BlankLine }

\* -------------------------------------------- combine_chunks_with_no_minimum
LoopState ==
    [ dropped_chunk_count |-> dropped_chunk_count,
      output              |-> output,
      output_indices      |-> output_indices,
      candidate           |-> candidate,
      candidate_indices   |-> candidate_indices ]

SetLoopState(st) ==
    /\ dropped_chunk_count' = st.dropped_chunk_count
    /\ output' = st.output
    /\ output_indices' = st.output_indices
    /\ candidate' = st.candidate
    /\ candidate_indices' = st.candidate_indices

\* the locals of summarize before they are bound (-1: not yet computed)
SummarizeLocalsUnbound ==
    /\ max_chunks = -1
    /\ num_chunks = -1
    /\ document_length = -1
    /\ chunk_size = -1
    /\ text_chunks = <<>>
    /\ system_message_content = <<>>
    /\ next_chunk = 0
    /\ accumulated_summaries = <<>>
    /\ requests = <<>>
    /\ final_summary = <<>>
    /\ accumulated_summaries_2 = <<>>
    /\ requests_2 = <<>>

\* no call of summarize is in progress
SummarizeIdle ==
    /\ text = <<>>
    /\ detail = 0
    /\ minimum_chunk_size = 0
    /\ summarize_recursively = FALSE
    /\ additional_instructions = <<>>
    /\ SummarizeLocalsUnbound
    /\ spc = "idle"

\* no direct call of combine_chunks_with_no_minimum is in progress
CombineIdle ==
    /\ chunks = <<>>
    /\ max_tokens = 0
    /\ chunk_delimiter = Dot
    /\ header = <<>>
    /\ add_ellipsis_for_overflow = FALSE
    /\ chunk_i = 0
    /\ dropped_chunk_count = 0
    /\ output = <<>>
    /\ output_indices = <<>>
    /\ candidate = <<>>
    /\ candidate_indices = <<>>
    /\ cpc = "idle"

\* the call has been entered: lines 118-124
InitCombine ==
    /\ chunks \in SeqsUpTo(PieceSet, MaxPieces)
    /\ max_tokens \in 0..MaxBudget
    /\ chunk_delimiter \in DelimiterSet
    /\ header \in HeaderSet
    /\ add_ellipsis_for_overflow \in BOOLEAN
    /\ chunk_i = 0
    /\ dropped_chunk_count = CombineInit(header).dropped_chunk_count
    /\ output = CombineInit(header).output
    /\ output_indices = CombineInit(header).output_indices
    /\ candidate = CombineInit(header).candidate
    /\ candidate_indices = CombineInit(header).candidate_indices
    /\ cpc = "loop"
    /\ SummarizeIdle

\* one iteration of `for chunk_i, chunk in enumerate(chunks)`
CombineIterate ==
    /\ cpc = "loop"
    /\ chunk_i < Len(chunks)
    /\ SetLoopState(CombineStep(LoopState, chunk_i, chunks[chunk_i + 1],
                                max_tokens, chunk_delimiter, header,
                                add_ellipsis_for_overflow))
    /\ chunk_i' = chunk_i + 1
    /\ UNCHANGED <<chunks, max_tokens, chunk_delimiter, header,
                   add_ellipsis_for_overflow, cpc>>
    /\ UNCHANGED summarizeVars

\* the loop is exhausted: flush the candidate and return
CombineReturn ==
    /\ cpc = "loop"
    /\ chunk_i = Len(chunks)
    /\ SetLoopState(CombineFinish(LoopState, chunk_delimiter, header))
    /\ cpc' = "done"
    /\ UNCHANGED <<chunks, max_tokens, chunk_delimiter, header,
                   add_ellipsis_for_overflow, chunk_i>>
    /\ UNCHANGED summarizeVars

NextCombine == CombineIterate \/ CombineReturn

SpecCombine == InitCombine /\ [][NextCombine]_vars

\* --------------------------------------------------------------- summarize
\* pieces a document is made of
TextPieceSet == { <<>>, <<"a">>, <<"a", "a", "a">> }

\* the documents: 1 .. MaxTextPieces pieces joined by "."
TextSet ==
    { Join(ps, Dot) : ps \in SeqsUpTo(TextPieceSet, MaxTextPieces) \ { <<>> } }

\* additional_instructions = None, or a string
InstructionSet == { <<>>, << <<"b">> >> }

\* what the language model may answer
ResponseSet == { <<"x">>, <<"y">> }

\* what it answers in the reference call
ReferenceResponse == <<"y">>

\* summarize has been called; chunk_delimiter = "." (its default)
Init ==
    /\ text \in TextSet
    /\ detail \in (-1)..(DetailDen + 1)
    /\ minimum_chunk_size \in 0..MaxMinChunk
    /\ summarize_recursively \in BOOLEAN
    /\ additional_instructions \in InstructionSet
    /\ SummarizeLocalsUnbound
    /\ spc = "start"
    /\ CombineIdle

\* assert 0 <= detail <= 1
CheckDetail ==
    /\ spc = "start"
    /\ spc' = IF DetailIsValid(detail) THEN "interpolate" ELSE "AssertionError"
    /\ UNCHANGED <<text, detail, minimum_chunk_size, summarize_recursively,
                   additional_instructions, max_chunks, num_chunks,
                   document_length, chunk_size, text_chunks,
                   system_message_content, next_chunk, accumulated_summaries,
                   requests, final_summary, accumulated_summaries_2,
                   requests_2>>
    /\ UNCHANGED combineVars

\* interpolate the number of chunks: the throwaway chunking pass at
\* minimum_chunk_size, then num_chunks
Interpolate ==
    /\ spc = "interpolate"
    /\ max_chunks' = Len(chunk_on_delimiter(text, minimum_chunk_size, Dot))
    /\ num_chunks' = NumChunks(detail, max_chunks')
    /\ spc' = "resize"
    /\ UNCHANGED <<text, detail, minimum_chunk_size, summarize_recursively,
                   additional_instructions, document_length, chunk_size,
                   text_chunks, system_message_content, next_chunk,
                   accumulated_summaries, requests, final_summary,
                   accumulated_summaries_2, requests_2>>
    /\ UNCHANGED combineVars

\* adjust chunk_size, chunk the text, set the system message; the integer
\* division raises ZeroDivisionError when num_chunks = 0
Resize ==
    /\ spc = "resize"
    /\ document_length' = Len(tokenize(text))
    /\ IF num_chunks = 0
       THEN /\ spc' = "ZeroDivisionError"
            /\ UNCHANGED <<chunk_size, text_chunks, system_message_content>>
       ELSE /\ chunk_size' = ChunkSize(minimum_chunk_size, document_length',
                                       num_chunks)
            /\ text_chunks' = chunk_on_delimiter(text, chunk_size', Dot)
            /\ system_message_content' =
                   SystemMessageContent(additional_instructions)
            /\ spc' = "loop"
    /\ UNCHANGED <<text, detail, minimum_chunk_size, summarize_recursively,
                   additional_instructions, max_chunks, num_chunks,
                   next_chunk, accumulated_summaries, requests, final_summary,
                   accumulated_summaries_2, requests_2>>
    /\ UNCHANGED combineVars

\* variant of SendRequest: the call is not awaited, the loop goes on to the
\* next chunk at once
SendRequestWithoutAwait ==
    /\ spc = "loop"
    /\ next_chunk < Len(text_chunks)
    /\ requests' = Append(requests,
           Messages(system_message_content,
                    UserMessageContent(summarize_recursively,
                                       accumulated_summaries,
                                       text_chunks[next_chunk + 1])))
    /\ requests_2' = Append(requests_2,
           Messages(system_message_content,
                    UserMessageContent(summarize_recursively,
                                       accumulated_summaries_2,
                                       text_chunks[next_chunk + 1])))
    /\ next_chunk' = next_chunk + 1
    /\ spc' = "loop"
    /\ UNCHANGED <<text, detail, minimum_chunk_size, summarize_recursively,
                   additional_instructions, max_chunks, num_chunks,
                   document_length, chunk_size, text_chunks,
                   system_message_content, accumulated_summaries,
                   final_summary, accumulated_summaries_2>>
    /\ UNCHANGED combineVars

\* the loop takes the next chunk, builds the messages and calls
\* get_chat_completion
SendRequest ==
    /\ spc = "loop"
    /\ next_chunk < Len(text_chunks)
    /\ requests' = Append(requests,
           Messages(system_message_content,
                    UserMessageContent(summarize_recursively,
                                       accumulated_summaries,
                                       text_chunks[next_chunk + 1])))
    /\ requests_2' = Append(requests_2,
           Messages(system_message_content,
                    UserMessageContent(summarize_recursively,
                                       accumulated_summaries_2,
                                       text_chunks[next_chunk + 1])))
    /\ next_chunk' = next_chunk + 1
    /\ spc' = "await"
    /\ UNCHANGED <<text, detail, minimum_chunk_size, summarize_recursively,
                   additional_instructions, max_chunks, num_chunks,
                   document_length, chunk_size, text_chunks,
                   system_message_content, accumulated_summaries,
                   final_summary, accumulated_summaries_2>>
    /\ UNCHANGED combineVars

\* get_chat_completion returns; the response is appended
ReceiveResponse ==
    /\ spc = "await"
    /\ \E response \in ResponseSet :
          /\ accumulated_summaries' = Append(accumulated_summaries, response)
          /\ accumulated_summaries_2' =
                 Append(accumulated_summaries_2, ReferenceResponse)
    /\ spc' = "loop"
    /\ UNCHANGED <<text, detail, minimum_chunk_size, summarize_recursively,
                   additional_instructions, max_chunks, num_chunks,
                   document_length, chunk_size, text_chunks,
                   system_message_content, next_chunk, requests,
                   final_summary, requests_2>>
    /\ UNCHANGED combineVars

\* variant of CompletionFails: the failure is swallowed and an empty summary
\* stands in for the response
CompletionFailsSubstitutingEmpty ==
    /\ spc = "await"
    /\ accumulated_summaries' = Append(accumulated_summaries, <<>>)
    /\ accumulated_summaries_2' = Append(accumulated_summaries_2, <<>>)
    /\ spc' = "loop"
    /\ UNCHANGED <<text, detail, minimum_chunk_size, summarize_recursively,
                   additional_instructions, max_chunks, num_chunks,
                   document_length, chunk_size, text_chunks,
                   system_message_content, next_chunk, requests,
                   final_summary, requests_2>>
    /\ UNCHANGED combineVars

\* get_chat_completion raises; nothing in summarize catches it
CompletionFails ==
    /\ spc = "await"
    /\ spc' = "CompletionError"
    /\ UNCHANGED <<text, detail, minimum_chunk_size, summarize_recursively,
                   additional_instructions, max_chunks, num_chunks,
                   document_length, chunk_size, text_chunks,
                   system_message_content, next_chunk, accumulated_summaries,
                   requests, final_summary, accumulated_summaries_2,
                   requests_2>>
    /\ UNCHANGED combineVars

\* variant of ReturnSummary: the summaries are joined by the chunk delimiter
ReturnSummaryJoinedByDelimiter ==
    /\ spc = "loop"
    /\ next_chunk = Len(text_chunks)
    /\ final_summary' = Join(accumulated_summaries, Dot)
    /\ spc' = "done"
    /\ UNCHANGED <<text, detail, minimum_chunk_size, summarize_recursively,
                   additional_instructions, max_chunks, num_chunks,
                   document_length, chunk_size, text_chunks,
                   system_message_content, next_chunk, accumulated_summaries,
                   requests, accumulated_summaries_2, requests_2>>
    /\ UNCHANGED combineVars

\* the loop is exhausted: compile and return the final summary
ReturnSummary ==
    /\ spc = "loop"
    /\ next_chunk = Len(text_chunks)
    /\ final_summary' = Join(accumulated_summaries, BlankLine)
    /\ spc' = "done"
    /\ UNCHANGED <<text, detail, minimum_chunk_size, summarize_recursively,
                   additional_instructions, max_chunks, num_chunks,
                   document_length, chunk_size, text_chunks,
                   system_message_content, next_chunk, accumulated_summaries,
                   requests, accumulated_summaries_2, requests_2>>
    /\ UNCHANGED combineVars

Next ==
    \/ CheckDetail
    \/ Interpolate
    \/ Resize
    \/ SendRequest
    \/ ReceiveResponse
    \/ CompletionFails
    \/ ReturnSummary

Spec == Init /\ [][Next]_vars

\* ------------------------------------------------- properties: the combiner
TokenCount(s) == Len(tokenize(s))

\* the 0-based positions of the pieces that do not fit alone
OverflowIndices ==
    { i \in 0..(Len(chunks) - 1) :
        TokenCount(Join(header \o <<chunks[i + 1]>>, chunk_delimiter))
            > max_tokens }

RECURSIVE Flatten(_)
Flatten(lists) ==
    IF lists = <<>> THEN <<>> ELSE lists[1] \o Flatten(Tail(lists))

Range(f) == { f[i] : i \in DOMAIN f }

\* C1: every chunk returned by combine_chunks_with_no_minimum tokenizes to at
\* most max_tokens (header, pieces and "..." markers joined by the
\* delimiter), and so does, at every step of the loop, a candidate that
\* holds more than the header.
C1_ChunksWithinBudget ==
    cpc # "idle" =>
        /\ \A k \in 1..Len(output) : TokenCount(output[k]) <= max_tokens
        /\ Len(candidate) > Len(header) =>
               TokenCount(Join(candidate, chunk_delimiter)) <= max_tokens

\* a call with a header and a dropped piece returned two chunks, one of them
\* filling the budget exactly
C1_Witness ==
    /\ cpc = "done"
    /\ header # <<>>
    /\ add_ellipsis_for_overflow
    /\ dropped_chunk_count > 0
    /\ Len(output) >= 2
    /\ \E k \in 1..Len(output) : TokenCount(output[k]) = max_tokens

\* C2: when no piece overflows, the index sets partition 0..n-1 into
\* contiguous increasing runs in increasing order: the emitted index lists
\* followed by the candidate's are exactly 0, 1, .., chunk_i-1, and after the
\* return the emitted lists alone are 0, 1, .., n-1.
C2_IndicesPartition ==
    (cpc # "idle" /\ OverflowIndices = {}) =>
        /\ Flatten(output_indices)
             \o (IF cpc = "loop" THEN candidate_indices ELSE <<>>)
               = [i \in 1..chunk_i |-> i - 1]
        /\ cpc = "done" => chunk_i = Len(chunks)

\* three fitting pieces were returned in more than one chunk
C2_Witness ==
    /\ cpc = "done"
    /\ OverflowIndices = {}
    /\ Len(chunks) = MaxPieces
    /\ Len(output) >= 2

\* C3: the returned dropped_chunk_count is the number of pieces skipped
\* because they do not fit alone.
C3_DroppedCountsSkipped ==
    cpc = "done" => dropped_chunk_count = Cardinality(OverflowIndices)

\* the lists obtained from list by inserting at most n "..." markers
RECURSIVE WithMarkers(_, _)
WithMarkers(list, n) ==
    IF n = 0 THEN { list }
    ELSE LET less == WithMarkers(list, n - 1)
         IN  less \cup
             UNION { { SubSeq(m, 1, p) \o <<Ellipsis>> \o SubSeq(m, p + 1, Len(m)) :
                         p \in 0..Len(m) } : m \in less }

\* the pieces at the given 0-based positions
PiecesAt(indices) == [k \in 1..Len(indices) |-> chunks[indices[k] + 1]]

\* no index of an overflowing piece is returned, and every returned chunk is
\* the header, the pieces of its index list and "..." markers, nothing else
C4_DroppedNeverReturned ==
    cpc # "idle" =>
        /\ Len(output) = Len(output_indices)
        /\ \A k \in 1..Len(output) :
              /\ Range(output_indices[k]) \cap OverflowIndices = {}
              /\ \E m \in WithMarkers(PiecesAt(output_indices[k]),
                                      dropped_chunk_count) :
                     output[k] = Join(header \o m, chunk_delimiter)

\* C4: the call is lossy but never blocks: it is either in its loop or has
\* returned (there is no raising step), the loop index stays within the
\* piece list so that an iteration or the return can always be taken, it
\* returns after len(chunks) iterations, and a piece that does not fit alone
\* is in no returned index list and no returned chunk.
C4_LossyNeverBlocks ==
    cpc # "idle" =>
        /\ cpc \in {"loop", "done"}
        /\ chunk_i <= Len(chunks)
        /\ cpc = "done" => chunk_i = Len(chunks)
        /\ C4_DroppedNeverReturned

\* a call without the ellipsis option returned a chunk although a piece was
\* dropped
C4_Witness ==
    /\ cpc = "done"
    /\ ~add_ellipsis_for_overflow
    /\ OverflowIndices # {}
    /\ Len(output) >= 1

\* ------------------------------------------------- properties: summarize
\* the interpolation has been computed
Interpolated ==
    spc \in {"resize", "loop", "await", "done", "ZeroDivisionError",
             "CompletionError"}

\* the final chunk list has been built
Chunked == spc \in {"loop", "await", "done", "CompletionError"}

\* C5: with detail = 0 summarize computes num_chunks = 1, with detail = 1 it
\* computes num_chunks = max_chunks, and max_chunks is the number of chunks
\* the combiner returns for the document's pieces at
\* max_tokens = minimum_chunk_size.
C5_DetailEndpoints ==
    Interpolated =>
        /\ max_chunks = Len(combine_chunks_with_no_minimum(
                                Split(text, Dot), minimum_chunk_size, Dot,
                                <<>>, TRUE).output)
        /\ detail = 0 => num_chunks = 1
        /\ detail = DetailDen => num_chunks = max_chunks

\* both endpoints of a document with at least three chunks at the minimum
\* size have been interpolated
C5_Witness ==
    /\ Interpolated
    /\ max_chunks >= 3
    /\ \/ detail = 0 /\ num_chunks = 1
       \/ detail = DetailDen /\ num_chunks = max_chunks

\* the details on the grid for which summarize gets past the division
CompletingDetails ==
    { d \in 0..DetailDen :
        NumChunks(d, Len(chunk_on_delimiter(text, minimum_chunk_size, Dot))) # 0 }

\* C6: monotonicity: the number of chunks summarize submits for this detail
\* is at most the number it builds, for the same document and
\* minimum_chunk_size, for any larger detail.
C6_ChunkCountMonotone ==
    spc = "done" =>
        \A d2 \in CompletingDetails :
            detail < d2 =>
                Len(requests) <= FinalChunkCount(text, d2, minimum_chunk_size)

\* C7: num_chunks is at least 1, so the division by it is defined and
\* summarize never fails with a division by zero.
C7_NumChunksPositive ==
    /\ Interpolated => num_chunks >= 1
    /\ spc # "ZeroDivisionError"

\* C8: with detail outside [0,1] summarize fails at its assertion: no
\* chunking pass is run, no request is issued, no summary is returned.
C8_InvalidDetailFailsFirst ==
    (spc # "idle" /\ ~(0 <= detail /\ detail <= DetailDen)) =>
        /\ spc \in {"start", "AssertionError"}
        /\ max_chunks = -1
        /\ chunk_size = -1
        /\ text_chunks = <<>>
        /\ requests = <<>>
        /\ requests_2 = <<>>
        /\ accumulated_summaries = <<>>
        /\ final_summary = <<>>

\* a call with detail above 1 has failed at the assertion
C8_Witness ==
    /\ spc = "AssertionError"
    /\ detail > DetailDen

\* content of the user message of the i-th request
UserContent(reqs, i) == reqs[i][2].content

\* C9: in recursive mode the user payload of request 1 is chunk 1 alone, and
\* for i > 1 the payload of request i carries the responses to chunks
\* 1 .. i-1, all of them, in chunk order, joined by a blank line, followed
\* (after the fixed label) by the text of chunk i.
C9_RecursivePayload ==
    (Chunked /\ summarize_recursively) =>
        \A i \in 1..Len(requests) :
            /\ i - 1 <= Len(accumulated_summaries)
            /\ UserContent(requests, i) =
                 IF i = 1 THEN text_chunks[1]
                 ELSE PreviousSummariesLabel
                        \o Join(SubSeq(accumulated_summaries, 1, i - 1),
                                BlankLine)
                        \o TextToSummarizeLabel
                        \o text_chunks[i]

\* a recursive run has issued its third request after two different
\* responses
C9_Witness ==
    /\ summarize_recursively
    /\ Len(requests) >= 3
    /\ accumulated_summaries[1] # accumulated_summaries[2]

\* C10: in non-recursive mode the requests do not depend on the responses:
\* the run, whatever its responses, has sent the same requests as the
\* reference run on the same arguments (so any two runs have sent the same
\* requests), and request i carries the system instruction and the text of
\* chunk i alone.
C10_RequestsIndependentOfResponses ==
    (Chunked /\ ~summarize_recursively) =>
        /\ requests = requests_2
        /\ \A i \in 1..Len(requests) :
              requests[i] =
                  Messages(SystemMessageContent(additional_instructions),
                           text_chunks[i])

\* a non-recursive run whose first response differs from the reference
\* run's has sent its second request, and so has the reference run
C10_Witness ==
    /\ ~summarize_recursively
    /\ Len(requests) >= 2
    /\ Len(requests_2) >= 2
    /\ accumulated_summaries[1] # accumulated_summaries_2[1]
    /\ additional_instructions # <<>>

\* string s ends with string p
EndsWith(s, p) ==
    /\ Len(p) <= Len(s)
    /\ SubSeq(s, Len(s) - Len(p) + 1, Len(s)) = p

\* what one step of summarize may do to the chain of requests and responses
ChainStep ==
    /\ requests' # requests =>
          \* a request is issued only when every earlier one has been
          \* answered and its response appended; it is the request for the
          \* next chunk in order
          /\ Len(accumulated_summaries) = Len(requests)
          /\ Len(requests) < Len(text_chunks)
          /\ Len(requests') = Len(requests) + 1
          /\ SubSeq(requests', 1, Len(requests)) = requests
          /\ EndsWith(UserContent(requests', Len(requests')),
                      text_chunks[Len(requests')])
    /\ accumulated_summaries' # accumulated_summaries =>
          \* a response is appended to answer the one outstanding request
          /\ Len(requests) = Len(accumulated_summaries) + 1
          /\ Len(accumulated_summaries') = Len(accumulated_summaries) + 1
          /\ SubSeq(accumulated_summaries', 1, Len(accumulated_summaries))
                 = accumulated_summaries
    /\ spc' = "done" =>
          \* at the return every chunk has been requested exactly once
          /\ Len(requests') = Len(text_chunks')
          /\ Len(accumulated_summaries') = Len(text_chunks')

\* C11: summarize processes the chunk list as a linear chain: one request
\* per chunk, in increasing chunk order, none skipped or repeated, and the
\* request for chunk i only after the response for chunk i-1 has been
\* received and appended, in both modes.
C11_LinearChain == [][ChainStep]_vars

\* a run has returned after three requests
C11_Witness ==
    /\ spc = "done"
    /\ Len(requests) >= 3
    /\ Len(accumulated_summaries) = Len(requests)

\* C12: when every call succeeds, the value returned is the responses joined
\* by a blank line in chunk order, one response per chunk: split at the
\* blank lines it gives back the responses, as many as there are chunks.
C12_FinalSummaryIsJoin ==
    spc = "done" =>
        /\ Len(accumulated_summaries) = Len(text_chunks)
        /\ final_summary = Join(accumulated_summaries, BlankLine)
        /\ Len(text_chunks) >= 1 =>
               Split(final_summary, BlankLine) = accumulated_summaries

\* a run over three chunks has returned a summary whose first two segments
\* differ
C12_Witness ==
    /\ spc = "done"
    /\ Len(text_chunks) >= 3
    /\ accumulated_summaries[1] # accumulated_summaries[2]

\* what a step may do around a failed language-model call
FailureStep ==
    /\ spc = "CompletionError" =>
          \* the failure ends the run: nothing happens after it
          UNCHANGED vars
    /\ accumulated_summaries' # accumulated_summaries =>
          \* only what the language model returned is ever appended
          /\ spc = "await"
          /\ accumulated_summaries'[Len(accumulated_summaries')] \in ResponseSet
    /\ spc' = "CompletionError" =>
          \* the failed call left no summary of any kind behind
          /\ requests' = requests
          /\ accumulated_summaries' = accumulated_summaries
          /\ Len(accumulated_summaries') = Len(requests') - 1
          /\ final_summary' = <<>>

\* C13: if the call for chunk i fails, the failure reaches the caller at
\* that chunk: no request is issued for a later chunk, no empty or
\* placeholder summary is substituted, no final summary is returned, in
\* recursive and non-recursive mode alike.
C13_FailurePropagates == [][FailureStep]_vars

\* a recursive run has failed at its second request
C13_Witness ==
    /\ spc = "CompletionError"
    /\ summarize_recursively
    /\ Len(requests) = 2
    /\ Len(requests) < Len(text_chunks)

\* C14: every chunk text summarize submits (the combined chunk with the
\* delimiter appended) tokenizes to at most the resolved budget
\* max(minimum_chunk_size, document_length // num_chunks).
C14_SubmittedChunksWithinBudget ==
    Chunked =>
        \A k \in 1..Len(text_chunks) :
            TokenCount(text_chunks[k])
                <= Max(minimum_chunk_size, document_length \div num_chunks)

\* C15: with detail = 0 the text is split into exactly one chunk, which
\* holds the whole document (followed by the delimiter), and exactly one
\* request is issued; also for the empty document.
C15_DetailZeroOneChunk ==
    (detail = 0 /\ Chunked) =>
        /\ Len(text_chunks) = 1
        /\ text_chunks[1] = text \o Dot
        /\ Len(requests) <= 1
        /\ spc = "done" =>
              /\ Len(requests) = 1
              /\ UserContent(requests, 1) = text \o Dot

\* a run with detail = 0 on a document of several pieces, longer than the
\* minimum chunk size, has returned
C15_Witness ==
    /\ detail = 0
    /\ spc = "done"
    /\ Len(Split(text, Dot)) = MaxTextPieces
    /\ document_length > minimum_chunk_size

\* a run with detail = 0 on the empty document has returned
C15_WitnessEmptyDocument ==
    /\ detail = 0
    /\ spc = "done"
    /\ text = <<>>

\* C16: greedy maximality: a chunk is closed only when the next fitting
\* piece does not fit in it: every returned chunk but the last, extended by
\* the delimiter and the first piece of the chunk after it, tokenizes to
\* more than max_tokens; in the loop the same holds of the last emitted
\* chunk and the first piece of the candidate.
C16_GreedyMaximality ==
    cpc # "idle" =>
        /\ \A k \in 1..(Len(output) - 1) :
              /\ output_indices[k + 1] # <<>>
              /\ TokenCount(output[k] \o chunk_delimiter
                              \o chunks[output_indices[k + 1][1] + 1])
                     > max_tokens
        /\ (cpc = "loop" /\ output # <<>>) =>
              /\ candidate_indices # <<>>
              /\ TokenCount(output[Len(output)] \o chunk_delimiter
                              \o chunks[candidate_indices[1] + 1])
                     > max_tokens

\* a call has returned three chunks
C16_Witness ==
    /\ cpc = "done"
    /\ Len(output) >= 3

\* C17: every chunk returned by the combiner holds at least one piece: its
\* index list is not empty.
C17_ChunksHoldAPiece ==
    cpc # "idle" =>
        \A k \in 1..Len(output_indices) : output_indices[k] # <<>>

\* the lists obtained from list by inserting exactly n "..." markers
ExactlyMarked(list, n) ==
    { m \in WithMarkers(list, n) : Len(m) = Len(list) + n }

\* the number of "..." markers in the k-th emitted chunk
MarkersInOutput(k) ==
    CHOOSE n \in 0..dropped_chunk_count :
        \E m \in ExactlyMarked(PiecesAt(output_indices[k]), n) :
            output[k] = Join(header \o m, chunk_delimiter)

RECURSIVE MarkersInOutputs(_)
MarkersInOutputs(k) ==
    IF k = 0 THEN 0 ELSE MarkersInOutputs(k - 1) + MarkersInOutput(k)

\* the number of "..." markers held in the candidate
MarkersInCandidate ==
    Cardinality({ j \in (Len(header) + 1)..Len(candidate) :
                    candidate[j] = Ellipsis })

====
